---- MODULE Spec2Model ----
(***************************************************************************)
(* Live auction engine of the cricket auction backend: bid arbitration     *)
(* (bid.controller placeBid), the per-event timer map (timerManager), the  *)
(* timer expiry callback and rotation (event.controller, scheduledStart),  *)
(* the operator commands (player-auction.controller) and the Mongoose      *)
(* models Bid, AuctionEvent, Player, TeamEventBudget.                      *)
(*                                                                         *)
(* Every handler is an async function; it is modelled as a process that    *)
(* takes one step per awaited store operation, so that handlers interleave *)
(* exactly at their await points.  A Mongoose save() writes only the paths *)
(* modified on the in-memory document, which was loaded at an earlier      *)
(* step: the processes keep those documents as snapshots.                  *)
(***************************************************************************)
EXTENDS Integers, Sequences, FiniteSets, TLC

\* ---------------------------------------------------------------- bounds
MaxBids == 1
MaxOps == 1
RaceBids == 3
MaxProcs == 2

\* ------------------------------------------------------ program constants
BASE_PRICE == 20
MAX_BID_PER_PLAYER == 2000
MAX_PLAYERS_PER_TEAM == 10
FallbackBudget == 10000
FallbackIncrement == 50

\* --------------------------------------------------------------- universe
EventIds == {"e1", "e2"}
PlayerIds == {"p1", "p2"}
TeamIds == {"t1", "t2"}
BidAmounts == {25, 30, 35}
ProcIds == 1..MaxProcs
NoPlayer == "none"
NoAmount == -1
NoLadder == [x |-> 0, next |-> 0]

VARIABLES
  uniqueWinning,  \* does the store enforce the unique winning-bid index
  events,         \* AuctionEvent collection: event id -> document
  players,        \* Player collection: player id -> document
  bids,           \* Bid collection, in insertion (bidTime) order
  budgets,        \* TeamEventBudget collection: <<team, event>> -> row
  teamPlayers,    \* Team.players array of each team
  timers,         \* timerManager `timers` map: event id -> {timeoutId, playerId}
  timeouts,       \* pending Node timeouts (setTimeout not yet fired or cleared)
  procs,          \* handler invocations in flight
  calls,          \* bids and operator commands that may still be submitted
  last,           \* outcome of the placeBid call that finished last
  debits,         \* per (event, item): budget debits and stats updates done
  ended,          \* per event: auction:ended summaries published
  ladder          \* an amount and the result of getNextBidAmount applied to it

vars == <<uniqueWinning, events, players, bids, budgets, teamPlayers, timers,
          timeouts, procs, calls, last, debits, ended, ladder>>

\* ------------------------------------------------------------ auctionRules

\* faulty variant of getNextBidAmount: the result is not capped
getNextBidAmountUncapped(currentBid) ==
  LET basePrice == IF currentBid = 0 THEN BASE_PRICE ELSE currentBid
  IN  IF basePrice >= MAX_BID_PER_PLAYER THEN NoAmount
      ELSE IF basePrice >= 20 /\ basePrice < 50 THEN basePrice + 5
      ELSE IF basePrice >= 50 /\ basePrice < 100 THEN basePrice + 10
      ELSE basePrice + 15

\* getNextBidAmount: next valid amount after currentBid, NoAmount at the cap
getNextBidAmount(currentBid) ==
  LET basePrice == IF currentBid = 0 THEN BASE_PRICE ELSE currentBid
      Min2(a, b) == IF a < b THEN a ELSE b
  IN  IF basePrice >= MAX_BID_PER_PLAYER THEN NoAmount
      ELSE IF basePrice >= 20 /\ basePrice < 50
             THEN Min2(basePrice + 5, MAX_BID_PER_PLAYER)
      ELSE IF basePrice >= 50 /\ basePrice < 100
             THEN Min2(basePrice + 10, MAX_BID_PER_PLAYER)
      ELSE IF basePrice >= 100
             THEN Min2(basePrice + 15, MAX_BID_PER_PLAYER)
      ELSE Min2(basePrice + 15, MAX_BID_PER_PLAYER)

\* faulty variant of canPlaceBid: the minimum required bid is not enforced
canPlaceBidNoMinimum(bidAmount, currentBid, ownerBalance, teamPlayerCount) ==
  IF bidAmount <= 0 THEN "invalid"
  ELSE IF bidAmount > MAX_BID_PER_PLAYER THEN "maxcap"
  ELSE IF bidAmount > ownerBalance THEN "budget"
  ELSE IF teamPlayerCount >= MAX_PLAYERS_PER_TEAM THEN "capacity"
  ELSE "ok"

\* canPlaceBid: "ok" or the reason of the first validation that fails
canPlaceBid(bidAmount, currentBid, ownerBalance, teamPlayerCount) ==
  LET minimumRequiredBid == getNextBidAmount(currentBid)
  IN  IF bidAmount <= 0 THEN "invalid"
      ELSE IF bidAmount > MAX_BID_PER_PLAYER THEN "maxcap"
      ELSE IF minimumRequiredBid = NoAmount THEN "maxreached"
      ELSE IF bidAmount < minimumRequiredBid THEN "belowmin"
      ELSE IF bidAmount > ownerBalance THEN "budget"
      ELSE IF teamPlayerCount >= MAX_PLAYERS_PER_TEAM THEN "capacity"
      ELSE "ok"

\* ------------------------------------------------------------------- Bid

\* indexes of the bids of (e, p) with isWinningBid = true
WinningIdx(bs, e, p) ==
  {i \in 1..Len(bs) : bs[i].ev = e /\ bs[i].pl = p /\ bs[i].win}

SetMax(S) == CHOOSE x \in S : \A y \in S : y <= x

\* Bid.getWinningBid: findOne({isWinningBid: true}).sort({bidTime: -1}); 0 is null
getWinningBid(bs, e, p) ==
  IF WinningIdx(bs, e, p) = {} THEN 0 ELSE SetMax(WinningIdx(bs, e, p))

\* amount of the winning bid of (e, p), 0 when there is none
TopAmount(bs, e, p) ==
  IF getWinningBid(bs, e, p) = 0 THEN 0 ELSE bs[getWinningBid(bs, e, p)].amt

\* markAsRejected: save() of status, rejectionReason and isWinningBid
markAsRejected(bs, i) ==
  [bs EXCEPT ![i] = [@ EXCEPT !.status = "rejected", !.win = FALSE]]

\* bid.save() of a new Bid: the insert is refused with E11000 when the unique
\* partial index on (auctionEventId, playerId, isWinningBid) is in force and a
\* winning bid of the pair is stored
BidInsertRefused(bs, uniq, e, p) ==
  uniq /\ WinningIdx(bs, e, p) # {}

\* the document stored by bid.save(): pre('save') turns status into `winning`.
\* `over` is no field of the schema: it records the amount that was winning
\* when the bid was stored (0 when no bid was winning)
NewBid(e, p, t, a, over) ==
  [ev |-> e, pl |-> p, team |-> t, amt |-> a, status |-> "winning", win |-> TRUE,
   over |-> over]

\* markAsWinning: updateMany of every other winning bid of the pair to outbid
\* (the save() that follows has no modified path and writes nothing)
markAsWinning(bs, i) ==
  [j \in 1..Len(bs) |->
     IF j # i /\ bs[j].ev = bs[i].ev /\ bs[j].pl = bs[i].pl /\ bs[j].win
       THEN [bs[j] EXCEPT !.status = "outbid", !.win = FALSE]
       ELSE bs[j]]

\* players of event e that have a winning bid: Bid.find(...).distinct('playerId')
SoldPlayerIds(bs, e) ==
  {bs[i].pl : i \in {j \in 1..Len(bs) : bs[j].ev = e /\ bs[j].win}}

\* ------------------------------------------------------- TeamEventBudget

NoBudget == [exists |-> FALSE, budget |-> 0, spent |-> 0, remaining |-> 0]

\* event.settings?.startingBudget || 10000
EventBudgetOf(doc) ==
  IF doc.startingBudget = 0 THEN FallbackBudget ELSE doc.startingBudget

\* the row created by getOrCreate; pre('save') recomputes remainingBudget
NewBudget(defaultBudget) ==
  [exists |-> TRUE, budget |-> defaultBudget, spent |-> 0,
   remaining |-> defaultBudget - 0]

\* canAfford on the in-memory row
canAfford(row, bidAmount) == row.remaining >= bidAmount

\* faulty variant of addPurchase: spent is raised, remainingBudget is left stale
addPurchaseStale(row, playerPrice) ==
  [row EXCEPT !.spent = row.spent + playerPrice]

\* addPurchase on the in-memory row, followed by pre('save')
addPurchase(row, playerPrice) ==
  [row EXCEPT !.spent = row.spent + playerPrice,
              !.remaining = row.budget - (row.spent + playerPrice)]

\* ---------------------------------------------------------- timerManager

NoTimer == [id |-> 0, pl |-> NoPlayer]

FreshId(tos) ==
  CHOOSE n \in 1..(Cardinality(tos) + 1) : \A t \in tos : t.id # n

\* faulty variant of clearPlayerTimer: the map entry is deleted, the timeout is
\* not cleared
clearPlayerTimerMapOnly(tm, tos, e) ==
  <<[tm EXCEPT ![e] = NoTimer], tos>>

\* clearPlayerTimer: clearTimeout + timers.delete; returns <<timers, timeouts>>
clearPlayerTimer(tm, tos, e) ==
  IF tm[e].id # 0
    THEN <<[tm EXCEPT ![e] = NoTimer], {t \in tos : t.id # tm[e].id}>>
    ELSE <<tm, tos>>

\* faulty variant of setPlayerTimer: the event's previous timeout is not cleared
setPlayerTimerKeeping(tm, tos, e, p) ==
  LET id == FreshId(tos)
  IN  <<[tm EXCEPT ![e] = [id |-> id, pl |-> p]],
        tos \cup {[id |-> id, kind |-> "timer", ev |-> e, pl |-> p]}>>

\* setPlayerTimer: clear the event's timer, setTimeout, timers.set
setPlayerTimer(tm, tos, e, p) ==
  LET c == clearPlayerTimer(tm, tos, e)
      id == FreshId(c[2])
  IN  <<[c[1] EXCEPT ![e] = [id |-> id, pl |-> p]],
        c[2] \cup {[id |-> id, kind |-> "timer", ev |-> e, pl |-> p]}>>

\* ------------------------------------------------------------- processes

NoDoc ==
  [status |-> "draft", cur |-> NoPlayer, startTime |-> 0, cat |-> "batsman",
   players |-> {}, auto |-> TRUE, startingBudget |-> 0, bidIncrement |-> 0,
   sold |-> 0, unsold |-> 0, spent |-> 0, completedAt |-> 0,
   startedBy |-> "none", startedAt |-> 0]

IdleProc ==
  [kind |-> "idle", pc |-> "idle", ev |-> "e1", pl |-> NoPlayer, team |-> "t1",
   amt |-> 0, doc |-> NoDoc, wb |-> 0, bud |-> NoBudget, tp |-> <<>>,
   bid |-> 0, sold |-> {}, wrote |-> FALSE, rival |-> FALSE, stale |-> FALSE,
   req |-> "none"]

Idle(i) == procs[i].kind = "idle"

\* a new invocation takes the lowest free slot
FreeSlot(i) == Idle(i) /\ \A j \in ProcIds : j < i => ~Idle(j)

Existing == {e \in EventIds : events[e].status # "absent"}

\* event.settings?.bidIncrement || 50
BidIncrementOf(doc) ==
  IF doc.bidIncrement = 0 THEN FallbackIncrement ELSE doc.bidIncrement

\* nextBidAmount of the bid:received event: amount + bidIncrement
nextBidAmount(doc, amount) == amount + BidIncrementOf(doc)

NoEmit == [amount |-> 0, nextBidAmount |-> 0]

\* emitBidReceived of an accepted bid: amount and nextBidAmount of the payload
emitBidReceived(pr) ==
  [amount |-> pr.amt, nextBidAmount |-> nextBidAmount(pr.doc, pr.amt)]

\* outcome of a finished placeBid call: the response, whether the call changed
\* a stored bid, whether a call that saw the same top bid was accepted first,
\* and the bid:received event it published
Outcome(pr, res) ==
  [res |-> res, wrote |-> pr.wrote, rival |-> pr.rival,
   emit |-> IF res = "ok" THEN emitBidReceived(pr) ELSE NoEmit]

NoOutcome == [res |-> "none", wrote |-> FALSE, rival |-> FALSE, emit |-> NoEmit]


\* an invocation ends: its slot becomes free
End(i) == [procs EXCEPT ![i] = IdleProc]

\* a placeBid invocation ends with response res
EndBid(i, res) ==
  /\ procs' = End(i)
  /\ last' = Outcome(procs[i], res)

\* pc that follows the budget lookup of getOrCreate
AfterBudget(kind) == IF kind = "placeBid" THEN "top" ELSE "purchase"

\* -------------------------------------------------------------- Init

\* a started event whose first player is on auction
LiveEvent ==
  [status |-> "live", cur |-> "p1", startTime |-> 1, cat |-> "batsman",
   players |-> PlayerIds, auto |-> TRUE, startingBudget |-> 60,
   bidIncrement |-> 50,
   sold |-> 0, unsold |-> 0, spent |-> 0, completedAt |-> 0,
   startedBy |-> "admin", startedAt |-> 1]

AbsentEvent == [NoDoc EXCEPT !.status = "absent"]

Roster ==
  [p \in PlayerIds |->
     [role |-> IF p = "p1" THEN "batsman" ELSE "bowler", basePrice |-> 20,
      status |-> "available", soldPrice |-> 0, teamId |-> "none"]]

\* event e1 is live, startPlayerAuction has put p1 on auction and armed the timer
InitStarted ==
  /\ events = [e \in EventIds |-> IF e = "e1" THEN LiveEvent ELSE AbsentEvent]
  /\ players = Roster
  /\ teamPlayers = [t \in TeamIds |-> <<>>]
  /\ timers = [e \in EventIds |->
                 IF e = "e1" THEN [id |-> 1, pl |-> "p1"] ELSE NoTimer]
  /\ timeouts = {[id |-> 1, kind |-> "timer", ev |-> "e1", pl |-> "p1"]}
  /\ procs = [i \in ProcIds |-> IdleProc]
  /\ last = NoOutcome
  /\ debits = [k \in EventIds \X PlayerIds |-> [budget |-> 0, stats |-> 0]]
  /\ ended = [e \in EventIds |-> 0]
  /\ ladder = NoLadder

\* no bid has been placed yet
InitNoBid ==
  /\ bids = <<>>
  /\ budgets = [k \in TeamIds \X EventIds |-> NoBudget]

\* team t1 has placed the first bid, 30, on p1
InitFirstBid ==
  /\ bids = <<NewBid("e1", "p1", "t1", 30, 0)>>
  /\ budgets = [k \in TeamIds \X EventIds |->
                  IF k = <<"t1", "e1">> THEN NewBudget(60) ELSE NoBudget]

Init ==
  /\ uniqueWinning \in BOOLEAN
  /\ InitStarted
  /\ InitFirstBid
  /\ calls = [bids |-> MaxBids, ops |-> MaxOps]

\* ------------------------------------------------------------ placeBid

\* placeBid up to the event lookup: input check, findById, live and
\* current-player checks
PlaceBid(i, e, p, t, a) ==
  /\ calls.bids > 0
  /\ FreeSlot(i)
  /\ calls' = [calls EXCEPT !.bids = @ - 1]
  /\ LET pr == [IdleProc EXCEPT !.kind = "placeBid", !.ev = e, !.pl = p,
                                !.team = t, !.amt = a, !.doc = events[e]]
         res == IF a = 0 THEN "missing"
                ELSE IF events[e].status # "live" THEN "notLive"
                ELSE IF events[e].cur # p THEN "notCurrent"
                ELSE "ok"
     IN  IF res = "ok"
           THEN /\ procs' = [procs EXCEPT ![i] = [pr EXCEPT !.pc = "team"]]
                /\ UNCHANGED last
           ELSE /\ last' = Outcome(pr, res)
                /\ UNCHANGED procs
  /\ UNCHANGED <<ladder, ended, uniqueWinning, events, players, bids, budgets, teamPlayers,
                 timers, timeouts, debits>>

\* Team.findById: the team document with its players array
LoadTeam(i) ==
  /\ procs[i].pc = "team"
  /\ procs' = [procs EXCEPT ![i] =
       [@ EXCEPT !.tp = teamPlayers[procs[i].team],
                 !.pc = IF procs[i].kind = "placeBid" THEN "budget"
                        ELSE "markSold"]]
  /\ UNCHANGED <<ladder, ended, uniqueWinning, events, players, bids, budgets, teamPlayers,
                 timers, timeouts, calls, last, debits>>

\* TeamEventBudget.getOrCreate: findOne
GetBudget(i) ==
  /\ procs[i].pc = "budget"
  /\ LET row == budgets[<<procs[i].team, procs[i].ev>>]
     IN  procs' = [procs EXCEPT ![i] =
           IF row.exists
             THEN [@ EXCEPT !.bud = row, !.pc = AfterBudget(procs[i].kind)]
             ELSE [@ EXCEPT !.pc = "budgetCreate"]]
  /\ UNCHANGED <<ladder, ended, uniqueWinning, events, players, bids, budgets, teamPlayers,
                 timers, timeouts, calls, last, debits>>

\* TeamEventBudget.getOrCreate: save of the new row; the unique index on
\* (teamId, auctionEventId) refuses a second row with E11000
CreateBudget(i) ==
  /\ procs[i].pc = "budgetCreate"
  /\ LET pr == procs[i]
         k == <<pr.team, pr.ev>>
         row == NewBudget(EventBudgetOf(pr.doc))
     IN  IF budgets[k].exists
           THEN /\ UNCHANGED budgets
                /\ IF pr.kind = "placeBid"
                     THEN EndBid(i, "duplicate")
                     ELSE procs' = End(i) /\ UNCHANGED last
           ELSE /\ budgets' = [budgets EXCEPT ![k] = row]
                /\ procs' = [procs EXCEPT ![i] =
                     [@ EXCEPT !.bud = row, !.pc = AfterBudget(pr.kind)]]
                /\ UNCHANGED last
  /\ UNCHANGED <<ladder, ended, uniqueWinning, events, players, bids, teamPlayers, timers,
                 timeouts, calls, debits>>

\* Bid.getWinningBid and canPlaceBid against the event-wise budget
ReadTop(i) ==
  /\ procs[i].pc = "top"
  /\ LET pr == procs[i]
         w == getWinningBid(bids, pr.ev, pr.pl)
         currentBidAmount == IF w # 0 THEN bids[w].amt
                             ELSE players[pr.pl].basePrice
         reason == canPlaceBid(pr.amt, currentBidAmount, pr.bud.remaining,
                               Len(pr.tp))
     IN  IF reason = "ok"
           THEN /\ procs' = [procs EXCEPT ![i] =
                     [@ EXCEPT !.wb = w,
                               !.pc = IF w # 0 THEN "demote" ELSE "insert"]]
                /\ UNCHANGED last
           ELSE EndBid(i, reason)
  /\ UNCHANGED <<ladder, ended, uniqueWinning, events, players, bids, budgets, teamPlayers,
                 timers, timeouts, calls, debits>>

\* currentWinningBid.markAsRejected('Outbid by higher bid')
Demote(i) ==
  /\ procs[i].pc = "demote"
  /\ bids' = markAsRejected(bids, procs[i].wb)
  /\ procs' = [procs EXCEPT ![i] =
       [@ EXCEPT !.pc = "insert", !.wrote = (bids' # bids)]]
  /\ UNCHANGED <<ladder, ended, uniqueWinning, events, players, budgets, teamPlayers, timers,
                 timeouts, calls, last, debits>>

\* another placeBid that observed the same top bid and has not inserted yet
Rival(pr, other) ==
  /\ other.kind = "placeBid"
  /\ other.pc \in {"demote", "insert"}
  /\ other.ev = pr.ev /\ other.pl = pr.pl /\ other.wb = pr.wb

\* bid.save(): insert of the new winning bid
InsertBid(i) ==
  /\ procs[i].pc = "insert"
  /\ LET pr == procs[i]
     IN  IF BidInsertRefused(bids, uniqueWinning, pr.ev, pr.pl)
           THEN /\ EndBid(i, "duplicate")
                /\ UNCHANGED bids
           ELSE /\ bids' = Append(bids, NewBid(pr.ev, pr.pl, pr.team, pr.amt,
                                               TopAmount(bids, pr.ev, pr.pl)))
                /\ procs' = [j \in ProcIds |->
                     IF j = i
                       THEN [pr EXCEPT !.bid = Len(bids) + 1,
                                       !.pc = "markWinning"]
                     ELSE IF Rival(pr, procs[j])
                       THEN [procs[j] EXCEPT !.rival = TRUE]
                     ELSE procs[j]]
                /\ UNCHANGED last
  /\ UNCHANGED <<ladder, ended, uniqueWinning, events, players, budgets, teamPlayers, timers,
                 timeouts, calls, debits>>

\* bid.markAsWinning()
MarkWinning(i) ==
  /\ procs[i].pc = "markWinning"
  /\ bids' = markAsWinning(bids, procs[i].bid)
  /\ procs' = [procs EXCEPT ![i] = [@ EXCEPT !.pc = "reset"]]
  /\ UNCHANGED <<ladder, ended, uniqueWinning, events, players, budgets, teamPlayers, timers,
                 timeouts, calls, last, debits>>

\* faulty variant of the last step of placeBid: the accepted amount is debited
\* from the bidder's budget row at once
ResetTimerDebiting(i) ==
  /\ procs[i].pc = "reset"
  /\ LET pr == procs[i]
         tt == setPlayerTimer(timers, timeouts, pr.ev, pr.pl)
     IN  /\ timers' = tt[1]
         /\ timeouts' = tt[2]
         /\ events' = [events EXCEPT ![pr.ev].startTime = 1]
         /\ budgets' = [budgets EXCEPT ![<<pr.team, pr.ev>>] =
                          addPurchase(@, pr.amt)]
  /\ EndBid(i, "ok")
  /\ UNCHANGED <<ladder, ended, uniqueWinning, players, bids, teamPlayers, calls, debits>>

\* an expiry callback of item pr.pl that fired before this bid was accepted
Overtaken(pr, other) ==
  other.kind = "timer" /\ other.ev = pr.ev /\ other.pl = pr.pl

\* timer reset, event.currentPlayerStartTime = new Date(), event.save(), 201
ResetTimer(i) ==
  /\ procs[i].pc = "reset"
  /\ LET pr == procs[i]
         tt == setPlayerTimer(timers, timeouts, pr.ev, pr.pl)
     IN  /\ timers' = tt[1]
         /\ timeouts' = tt[2]
         /\ events' = [events EXCEPT ![pr.ev].startTime = 1]
         /\ procs' = [j \in ProcIds |->
              IF j = i THEN IdleProc
              ELSE IF Overtaken(pr, procs[j])
                THEN [procs[j] EXCEPT !.stale = TRUE]
              ELSE procs[j]]
         /\ last' = Outcome(pr, "ok")
  /\ UNCHANGED <<ladder, ended, uniqueWinning, players, bids, budgets, teamPlayers, calls,
                 debits>>


\* ------------------------------------------------- timer expiry callback

\* the setTimeout of setPlayerTimer fires: timers.delete(eventId), then the
\* callback of createTimerCallback starts
TimerFire(i, t) ==
  /\ t \in timeouts /\ t.kind = "timer"
  /\ FreeSlot(i)
  /\ timeouts' = timeouts \ {t}
  /\ timers' = [timers EXCEPT ![t.ev] = NoTimer]
  /\ procs' = [procs EXCEPT ![i] =
       [IdleProc EXCEPT !.kind = "timer", !.pc = "tc_event", !.ev = t.ev,
                        !.pl = t.pl]]
  /\ UNCHANGED <<ladder, ended, uniqueWinning, events, players, bids, budgets, teamPlayers,
                 calls, last, debits>>

\* AuctionEvent.findById and the freshness guard on currentPlayerId
TimerLoadEvent(i) ==
  /\ procs[i].pc = "tc_event"
  /\ LET pr == procs[i]
     IN  procs' = IF events[pr.ev].cur # pr.pl
                    THEN End(i)
                    ELSE [procs EXCEPT ![i] =
                           [pr EXCEPT !.doc = events[pr.ev], !.pc = "winning"]]
  /\ UNCHANGED <<ladder, ended, uniqueWinning, events, players, bids, budgets, teamPlayers,
                 timers, timeouts, calls, last, debits>>

\* Bid.getWinningBid in the timer callback and in finalizePlayerSold
ReadWinning(i) ==
  /\ procs[i].pc = "winning"
  /\ LET pr == procs[i]
         w == getWinningBid(bids, pr.ev, pr.pl)
     IN  procs' =
           IF pr.kind = "timer"
             THEN [procs EXCEPT ![i] =
                    [pr EXCEPT !.wb = w, !.pc = "tc_player",
                               !.team = IF w # 0 THEN bids[w].team ELSE pr.team,
                               !.amt = IF w # 0 THEN bids[w].amt ELSE 0]]
           ELSE IF w = 0 THEN End(i)
           ELSE [procs EXCEPT ![i] =
                  [pr EXCEPT !.wb = w, !.pc = "team", !.team = bids[w].team,
                             !.amt = bids[w].amt]]
  /\ UNCHANGED <<ladder, ended, uniqueWinning, events, players, bids, budgets, teamPlayers,
                 timers, timeouts, calls, last, debits>>

\* Player.findById, the status check and the auto/manual branch
TimerCheckPlayer(i) ==
  /\ procs[i].pc = "tc_player"
  /\ LET pr == procs[i]
     IN  procs' =
           IF players[pr.pl].status # "available" THEN End(i)
           ELSE IF pr.wb = 0
             THEN [procs EXCEPT ![i] = [pr EXCEPT !.pc = "clearNoBid"]]
           ELSE IF pr.doc.auto
             THEN [procs EXCEPT ![i] = [pr EXCEPT !.pc = "team"]]
           ELSE End(i)
  /\ UNCHANGED <<ladder, ended, uniqueWinning, events, players, bids, budgets, teamPlayers,
                 timers, timeouts, calls, last, debits>>

\* --------------------- sale: shared by the timer callback and finalizePlayerSold

\* player.markAsSold: soldPrice and currentPrice only, the status stays as it is
MarkSold(i) ==
  /\ procs[i].pc = "markSold"
  /\ LET pr == procs[i]
     IN  IF pr.amt < players[pr.pl].basePrice
           THEN /\ procs' = End(i)
                /\ UNCHANGED players
           ELSE /\ players' = [players EXCEPT ![pr.pl].soldPrice = pr.amt]
                /\ procs' = [procs EXCEPT ![i] = [pr EXCEPT !.pc = "budget"]]
  /\ UNCHANGED <<ladder, ended, uniqueWinning, events, bids, budgets, teamPlayers, timers,
                 timeouts, calls, last, debits>>

\* teamEventBudget.addPurchase(winningBid.amount): throws when the loaded row
\* cannot afford the price, else saves spent and remainingBudget of that row
Purchase(i) ==
  /\ procs[i].pc = "purchase"
  /\ LET pr == procs[i]
         k == <<pr.team, pr.ev>>
     IN  IF ~canAfford(pr.bud, pr.amt)
           THEN /\ procs' = End(i)
                /\ UNCHANGED <<budgets, debits>>
           ELSE /\ budgets' = [budgets EXCEPT ![k] = addPurchase(pr.bud, pr.amt)]
                /\ debits' = [debits EXCEPT ![<<pr.ev, pr.pl>>].budget = @ + 1]
                /\ procs' = [procs EXCEPT ![i] =
                     [pr EXCEPT !.bud = addPurchase(pr.bud, pr.amt),
                                !.pc = "teamSave"]]
  /\ UNCHANGED <<ladder, ended, uniqueWinning, events, players, bids, teamPlayers, timers,
                 timeouts, calls, last>>

\* team.players.push(playerId) and team.save() unless already included
TeamSave(i) ==
  /\ procs[i].pc = "teamSave"
  /\ LET pr == procs[i]
         included == \E n \in 1..Len(pr.tp) : pr.tp[n] = pr.pl
     IN  teamPlayers' = IF included THEN teamPlayers
                        ELSE [teamPlayers EXCEPT ![pr.team] = Append(@, pr.pl)]
  /\ procs' = [procs EXCEPT ![i] = [@ EXCEPT !.pc = "stats"]]
  /\ UNCHANGED <<ladder, ended, uniqueWinning, events, players, bids, budgets, timers,
                 timeouts, calls, last, debits>>

\* event.updatePlayerSold(amount): the stats of the loaded document plus one sale
UpdateStats(i) ==
  /\ procs[i].pc = "stats"
  /\ LET pr == procs[i]
         d == [pr.doc EXCEPT !.sold = @ + 1, !.spent = @ + pr.amt]
     IN  /\ events' = [events EXCEPT ![pr.ev].sold = d.sold,
                                     ![pr.ev].spent = d.spent]
         /\ procs' = [procs EXCEPT ![i] = [pr EXCEPT !.doc = d, !.pc = "clear"]]
         /\ debits' = [debits EXCEPT ![<<pr.ev, pr.pl>>].stats = @ + 1]
  /\ UNCHANGED <<ladder, ended, uniqueWinning, players, bids, budgets, teamPlayers, timers,
                 timeouts, calls, last>>

\* the paths of the event document that save() writes after
\* currentPlayerId = v and currentPlayerStartTime = s were assigned to doc
SaveCurrent(ev, doc, v, s) ==
  [ev EXCEPT !.cur = IF doc.cur # v THEN v ELSE @,
             !.startTime = IF doc.startTime # s \/ s = 1 THEN s ELSE @]

\* currentPlayerId = null, currentPlayerStartTime = null, event.save()
ClearCurrent(i) ==
  /\ procs[i].pc = "clear"
  /\ LET pr == procs[i]
     IN  /\ events' = [events EXCEPT ![pr.ev] =
                         SaveCurrent(@, pr.doc, NoPlayer, 0)]
         /\ procs' = IF pr.kind = "timer"
                       THEN [procs EXCEPT ![i] = [pr EXCEPT !.pc = "check"]]
                       ELSE End(i)
  /\ UNCHANGED <<ladder, ended, uniqueWinning, players, bids, budgets, teamPlayers, timers,
                 timeouts, calls, last, debits>>

\* AuctionEvent.findById(updatedEvent) of the completion check
CompletionLoad(i) ==
  /\ procs[i].pc = "check"
  /\ procs' = [procs EXCEPT ![i] =
       [@ EXCEPT !.doc = events[procs[i].ev], !.pc = "allSold"]]
  /\ UNCHANGED <<ladder, ended, uniqueWinning, events, players, bids, budgets, teamPlayers,
                 timers, timeouts, calls, last, debits>>

\* updatedEvent.completeAuction() on the loaded document
completeAuction(ev, doc) ==
  IF doc.status \in {"live", "paused"}
    THEN [ev EXCEPT !.status = "completed", !.completedAt = 1]
    ELSE ev

\* the allSold test: completeAuction and emitAuctionEnded, or
\* autoMoveToNextPlayer; completeAuction throws on a document that is neither
\* live nor paused, and the summary is then not emitted
CompletionCheck(i) ==
  /\ procs[i].pc = "allSold"
  /\ LET pr == procs[i]
         soldPlayerIds == SoldPlayerIds(bids, pr.ev)
         allSold == pr.doc.players # {} /\ pr.doc.players \subseteq soldPlayerIds
     IN  IF allSold
           THEN /\ events' = [events EXCEPT ![pr.ev] = completeAuction(@, pr.doc)]
                /\ ended' = IF pr.doc.status \in {"live", "paused"}
                               THEN [ended EXCEPT ![pr.ev] = @ + 1]
                               ELSE ended
                /\ procs' = End(i)
           ELSE /\ procs' = [procs EXCEPT ![i] = [pr EXCEPT !.pc = "am_event"]]
                /\ UNCHANGED <<events, ended>>
  /\ UNCHANGED <<ladder, uniqueWinning, players, bids, budgets, teamPlayers,
                 timers, timeouts, calls, last, debits>>

\* faulty variant of the no-bid branch: the player is recorded as unsold
ClearNoBidUnsold(i) ==
  /\ procs[i].pc = "clearNoBid"
  /\ LET pr == procs[i]
     IN  /\ events' = [events EXCEPT ![pr.ev] =
                         [SaveCurrent(@, pr.doc, NoPlayer, 0)
                            EXCEPT !.unsold = pr.doc.unsold + 1]]
         /\ players' = [players EXCEPT ![pr.pl].status = "unsold"]
         /\ procs' = [procs EXCEPT ![i] = [pr EXCEPT !.pc = "am_event"]]
  /\ UNCHANGED <<ladder, ended, uniqueWinning, bids, budgets, teamPlayers, timers,
                 timeouts, calls, last, debits>>

\* no bid at expiry: clear the current player, then autoMoveToNextPlayer
ClearNoBid(i) ==
  /\ procs[i].pc = "clearNoBid"
  /\ LET pr == procs[i]
     IN  /\ events' = [events EXCEPT ![pr.ev] =
                         SaveCurrent(@, pr.doc, NoPlayer, 0)]
         /\ procs' = [procs EXCEPT ![i] = [pr EXCEPT !.pc = "am_event"]]
  /\ UNCHANGED <<ladder, ended, uniqueWinning, players, bids, budgets, teamPlayers, timers,
                 timeouts, calls, last, debits>>


\* ------------------------------------------------- autoMoveToNextPlayer

getNextCategory(currentCategory) ==
  IF currentCategory = "batsman" THEN "bowler"
  ELSE IF currentCategory = "bowler" THEN "all-rounder"
  ELSE "batsman"

\* players of the loaded event in category cat that are not in soldPlayerIds
AvailablePlayers(doc, soldPlayerIds, cat) ==
  {p \in doc.players : players[p].role = cat /\ p \notin soldPlayerIds}

\* faulty variant of the selection: availablePlayers[0] without the sort
AnyAvailable(S) == S

\* availablePlayers[0] after sort({basePrice: 1}): a player of lowest base price
LowestBase(S) ==
  {p \in S : \A q \in S : players[p].basePrice <= players[q].basePrice}

\* setTimeout(..., 2000) of the delayed start of player n
ScheduleStart(tos, e, n) ==
  tos \cup {[id |-> FreshId(tos), kind |-> "delay", ev |-> e, pl |-> n]}

\* AuctionEvent.findById and the live check
AdvanceLoad(i) ==
  /\ procs[i].pc = "am_event"
  /\ LET pr == procs[i]
     IN  procs' = IF events[pr.ev].status # "live"
                    THEN End(i)
                    ELSE [procs EXCEPT ![i] =
                           [pr EXCEPT !.doc = events[pr.ev], !.pc = "am_sold"]]
  /\ UNCHANGED <<ladder, ended, uniqueWinning, events, players, bids, budgets, teamPlayers,
                 timers, timeouts, calls, last, debits>>

\* soldPlayerIds, the players of the current category, the category move
AdvanceSelect(i) ==
  /\ procs[i].pc = "am_sold"
  /\ LET pr == procs[i]
         soldPlayerIds == SoldPlayerIds(bids, pr.ev)
         availablePlayers == AvailablePlayers(pr.doc, soldPlayerIds, pr.doc.cat)
         nextCategory == getNextCategory(pr.doc.cat)
         anyAvailablePlayers == pr.doc.players \ soldPlayerIds
     IN  IF availablePlayers # {}
           THEN /\ \E n \in LowestBase(availablePlayers) :
                     timeouts' = ScheduleStart(timeouts, pr.ev, n)
                /\ procs' = End(i)
           ELSE IF nextCategory = "batsman" /\ pr.doc.cat = "all-rounder"
                   /\ anyAvailablePlayers = {}
             THEN /\ procs' = End(i)
                  /\ UNCHANGED timeouts
           ELSE /\ procs' = [procs EXCEPT ![i] =
                     [pr EXCEPT !.sold = soldPlayerIds,
                                !.doc = [pr.doc EXCEPT !.cat = nextCategory],
                                !.pc = "am_saveCat"]]
                /\ UNCHANGED timeouts
  /\ UNCHANGED <<ladder, ended, uniqueWinning, events, players, bids, budgets, teamPlayers,
                 timers, calls, last, debits>>

\* event.currentCategory = nextCategory, event.save(), players of that category
AdvanceSaveCategory(i) ==
  /\ procs[i].pc = "am_saveCat"
  /\ LET pr == procs[i]
         availablePlayers == AvailablePlayers(pr.doc, pr.sold, pr.doc.cat)
     IN  /\ events' = [events EXCEPT ![pr.ev].cat = pr.doc.cat]
         /\ IF availablePlayers # {}
              THEN \E n \in LowestBase(availablePlayers) :
                     timeouts' = ScheduleStart(timeouts, pr.ev, n)
              ELSE UNCHANGED timeouts
         /\ procs' = End(i)
  /\ UNCHANGED <<ladder, ended, uniqueWinning, players, bids, budgets, teamPlayers, timers,
                 calls, last, debits>>

\* the delayed start fires: AuctionEvent.findById and the live check
DelayFire(i, t) ==
  /\ t \in timeouts /\ t.kind = "delay"
  /\ FreeSlot(i)
  /\ timeouts' = timeouts \ {t}
  /\ procs' = IF events[t.ev].status # "live"
                THEN procs
                ELSE [procs EXCEPT ![i] =
                       [IdleProc EXCEPT !.kind = "start", !.pc = "saveCurrent",
                                        !.ev = t.ev, !.pl = t.pl,
                                        !.doc = events[t.ev]]]
  /\ UNCHANGED <<ladder, ended, uniqueWinning, events, players, bids, budgets, teamPlayers,
                 timers, calls, last, debits>>

\* ---------------------------------------------------- startPlayerAuction

\* startPlayerAuction up to the event lookup and the live check
StartItem(i, e, p) ==
  /\ calls.ops > 0
  /\ FreeSlot(i)
  /\ calls' = [calls EXCEPT !.ops = @ - 1]
  /\ procs' = IF events[e].status # "live"
                THEN procs
                ELSE [procs EXCEPT ![i] =
                       [IdleProc EXCEPT !.kind = "startItem", !.pc = "sp_player",
                                        !.ev = e, !.pl = p, !.doc = events[e]]]
  /\ UNCHANGED <<ladder, ended, uniqueWinning, events, players, bids, budgets, teamPlayers,
                 timers, timeouts, last, debits>>

\* Player.findById, membership in event.players, global status available
StartItemCheck(i) ==
  /\ procs[i].pc = "sp_player"
  /\ LET pr == procs[i]
     IN  procs' = IF pr.pl \in pr.doc.players
                     /\ players[pr.pl].status = "available"
                    THEN [procs EXCEPT ![i] = [pr EXCEPT !.pc = "saveCurrent"]]
                    ELSE End(i)
  /\ UNCHANGED <<ladder, ended, uniqueWinning, events, players, bids, budgets, teamPlayers,
                 timers, timeouts, calls, last, debits>>

\* currentPlayerId = playerId, currentPlayerStartTime = new Date(), save():
\* in startPlayerAuction and in the delayed start of autoMoveToNextPlayer
SaveCurrentPlayer(i) ==
  /\ procs[i].pc = "saveCurrent"
  /\ LET pr == procs[i]
     IN  events' = [events EXCEPT ![pr.ev] = SaveCurrent(@, pr.doc, pr.pl, 1)]
  /\ procs' = [procs EXCEPT ![i] = [@ EXCEPT !.pc = "arm"]]
  /\ UNCHANGED <<ladder, ended, uniqueWinning, players, bids, budgets, teamPlayers, timers,
                 timeouts, calls, last, debits>>

\* setPlayerTimer(eventId, playerId, createTimerCallback(eventId), 20000)
ArmTimer(i) ==
  /\ procs[i].pc = "arm"
  /\ LET pr == procs[i]
         tt == setPlayerTimer(timers, timeouts, pr.ev, pr.pl)
     IN  /\ timers' = tt[1]
         /\ timeouts' = tt[2]
  /\ procs' = End(i)
  /\ UNCHANGED <<ladder, ended, uniqueWinning, events, players, bids, budgets, teamPlayers,
                 calls, last, debits>>

\* ---------------------------------- finalizePlayerSold, finalizePlayerUnsold

\* finalizePlayerSold up to the event lookup and the live check
FinalizeSold(i, e, p) ==
  /\ calls.ops > 0
  /\ FreeSlot(i)
  /\ calls' = [calls EXCEPT !.ops = @ - 1]
  /\ procs' = IF events[e].status # "live"
                THEN procs
                ELSE [procs EXCEPT ![i] =
                       [IdleProc EXCEPT !.kind = "finalizeSold", !.pc = "winning",
                                        !.ev = e, !.pl = p, !.doc = events[e]]]
  /\ UNCHANGED <<ladder, ended, uniqueWinning, events, players, bids, budgets, teamPlayers,
                 timers, timeouts, last, debits>>

\* finalizePlayerUnsold up to the event lookup and the live check
FinalizeUnsold(i, e, p) ==
  /\ calls.ops > 0
  /\ FreeSlot(i)
  /\ calls' = [calls EXCEPT !.ops = @ - 1]
  /\ procs' = IF events[e].status # "live"
                THEN procs
                ELSE [procs EXCEPT ![i] =
                       [IdleProc EXCEPT !.kind = "finalizeUnsold",
                                        !.pc = "fu_mark", !.ev = e, !.pl = p,
                                        !.doc = events[e]]]
  /\ UNCHANGED <<ladder, ended, uniqueWinning, events, players, bids, budgets, teamPlayers,
                 timers, timeouts, last, debits>>

\* Player.findById and player.markAsUnsold()
UnsoldMark(i) ==
  /\ procs[i].pc = "fu_mark"
  /\ players' = [players EXCEPT ![procs[i].pl] =
       [@ EXCEPT !.status = "unsold", !.teamId = "none", !.soldPrice = 0]]
  /\ procs' = [procs EXCEPT ![i] = [@ EXCEPT !.pc = "fu_stats"]]
  /\ UNCHANGED <<ladder, ended, uniqueWinning, events, bids, budgets, teamPlayers, timers,
                 timeouts, calls, last, debits>>

\* event.updatePlayerUnsold(): playersUnsold of the loaded document plus one
UnsoldStats(i) ==
  /\ procs[i].pc = "fu_stats"
  /\ LET pr == procs[i]
     IN  /\ events' = [events EXCEPT ![pr.ev].unsold = pr.doc.unsold + 1]
         /\ procs' = [procs EXCEPT ![i] =
              [pr EXCEPT !.doc = [pr.doc EXCEPT !.unsold = @ + 1],
                         !.pc = "fu_clear"]]
  /\ UNCHANGED <<ladder, ended, uniqueWinning, players, bids, budgets, teamPlayers, timers,
                 timeouts, calls, last, debits>>

\* clearPlayerTimer(eventId), then the current player is cleared and saved
UnsoldClear(i) ==
  /\ procs[i].pc = "fu_clear"
  /\ LET pr == procs[i]
         tt == clearPlayerTimer(timers, timeouts, pr.ev)
     IN  /\ timers' = tt[1]
         /\ timeouts' = tt[2]
         /\ events' = [events EXCEPT ![pr.ev] =
                         SaveCurrent(@, pr.doc, NoPlayer, 0)]
  /\ procs' = End(i)
  /\ UNCHANGED <<ladder, ended, uniqueWinning, players, bids, budgets, teamPlayers, calls,
                 last, debits>>

\* ------------------------------------------------------------------ Next

Next ==
  \/ \E i \in ProcIds, e \in Existing, p \in PlayerIds, t \in TeamIds,
        a \in BidAmounts : PlaceBid(i, e, p, t, a)
  \/ \E i \in ProcIds : LoadTeam(i)
  \/ \E i \in ProcIds : GetBudget(i)
  \/ \E i \in ProcIds : CreateBudget(i)
  \/ \E i \in ProcIds : ReadTop(i)
  \/ \E i \in ProcIds : Demote(i)
  \/ \E i \in ProcIds : InsertBid(i)
  \/ \E i \in ProcIds : MarkWinning(i)
  \/ \E i \in ProcIds : ResetTimer(i)
  \/ \E i \in ProcIds, t \in timeouts : TimerFire(i, t)
  \/ \E i \in ProcIds : TimerLoadEvent(i)
  \/ \E i \in ProcIds : ReadWinning(i)
  \/ \E i \in ProcIds : TimerCheckPlayer(i)
  \/ \E i \in ProcIds : MarkSold(i)
  \/ \E i \in ProcIds : Purchase(i)
  \/ \E i \in ProcIds : TeamSave(i)
  \/ \E i \in ProcIds : UpdateStats(i)
  \/ \E i \in ProcIds : ClearCurrent(i)
  \/ \E i \in ProcIds : CompletionLoad(i)
  \/ \E i \in ProcIds : CompletionCheck(i)
  \/ \E i \in ProcIds : ClearNoBid(i)
  \/ \E i \in ProcIds : AdvanceLoad(i)
  \/ \E i \in ProcIds : AdvanceSelect(i)
  \/ \E i \in ProcIds : AdvanceSaveCategory(i)
  \/ \E i \in ProcIds, t \in timeouts : DelayFire(i, t)
  \/ \E i \in ProcIds, e \in Existing, p \in PlayerIds : StartItem(i, e, p)
  \/ \E i \in ProcIds : StartItemCheck(i)
  \/ \E i \in ProcIds : SaveCurrentPlayer(i)
  \/ \E i \in ProcIds : ArmTimer(i)
  \/ \E i \in ProcIds, e \in Existing, p \in PlayerIds : FinalizeSold(i, e, p)
  \/ \E i \in ProcIds, e \in Existing, p \in PlayerIds : FinalizeUnsold(i, e, p)
  \/ \E i \in ProcIds : UnsoldMark(i)
  \/ \E i \in ProcIds : UnsoldStats(i)
  \/ \E i \in ProcIds : UnsoldClear(i)

Spec == Init /\ [][Next]_vars

\* ------------------------------------------- concurrent bids on one item

\* the bidders' side alone: placeBid calls racing within one timer window
NextRace ==
  \/ \E i \in ProcIds, e \in Existing, p \in PlayerIds, t \in TeamIds,
        a \in BidAmounts : PlaceBid(i, e, p, t, a)
  \/ \E i \in ProcIds : LoadTeam(i)
  \/ \E i \in ProcIds : GetBudget(i)
  \/ \E i \in ProcIds : CreateBudget(i)
  \/ \E i \in ProcIds : ReadTop(i)
  \/ \E i \in ProcIds : Demote(i)
  \/ \E i \in ProcIds : InsertBid(i)
  \/ \E i \in ProcIds : MarkWinning(i)
  \/ \E i \in ProcIds : ResetTimer(i)

InitRace ==
  /\ uniqueWinning \in BOOLEAN
  /\ InitStarted
  /\ InitNoBid
  /\ calls = [bids |-> RaceBids, ops |-> 0]

SpecRace == InitRace /\ [][NextRace]_vars

\* the same races against a store that enforces the unique winning-bid index
InitUnique ==
  /\ uniqueWinning = TRUE
  /\ InitStarted
  /\ InitNoBid
  /\ calls = [bids |-> RaceBids, ops |-> 0]

SpecUnique == InitUnique /\ [][NextRace]_vars

\* --------------------------------------- bids and timers, no operator

\* the automatic side alone: bids, timer expiry, sale, completion, rotation
NextAuto ==
  \/ \E i \in ProcIds, e \in Existing, p \in PlayerIds, t \in TeamIds,
        a \in BidAmounts : PlaceBid(i, e, p, t, a)
  \/ \E i \in ProcIds : LoadTeam(i)
  \/ \E i \in ProcIds : GetBudget(i)
  \/ \E i \in ProcIds : CreateBudget(i)
  \/ \E i \in ProcIds : ReadTop(i)
  \/ \E i \in ProcIds : Demote(i)
  \/ \E i \in ProcIds : InsertBid(i)
  \/ \E i \in ProcIds : MarkWinning(i)
  \/ \E i \in ProcIds : ResetTimer(i)
  \/ \E i \in ProcIds, t \in timeouts : TimerFire(i, t)
  \/ \E i \in ProcIds : TimerLoadEvent(i)
  \/ \E i \in ProcIds : ReadWinning(i)
  \/ \E i \in ProcIds : TimerCheckPlayer(i)
  \/ \E i \in ProcIds : MarkSold(i)
  \/ \E i \in ProcIds : Purchase(i)
  \/ \E i \in ProcIds : TeamSave(i)
  \/ \E i \in ProcIds : UpdateStats(i)
  \/ \E i \in ProcIds : ClearCurrent(i)
  \/ \E i \in ProcIds : CompletionLoad(i)
  \/ \E i \in ProcIds : CompletionCheck(i)
  \/ \E i \in ProcIds : ClearNoBid(i)
  \/ \E i \in ProcIds : AdvanceLoad(i)
  \/ \E i \in ProcIds : AdvanceSelect(i)
  \/ \E i \in ProcIds : AdvanceSaveCategory(i)
  \/ \E i \in ProcIds, t \in timeouts : DelayFire(i, t)
  \/ \E i \in ProcIds : SaveCurrentPlayer(i)
  \/ \E i \in ProcIds : ArmTimer(i)

InitAuto ==
  /\ uniqueWinning \in BOOLEAN
  /\ InitStarted
  /\ InitFirstBid
  /\ calls = [bids |-> MaxBids, ops |-> 0]

SpecAuto == InitAuto /\ [][NextAuto]_vars

\* ------------------------------------------------------- manual mode

\* the started state for an event document ev and a player collection roster
StartedWith(ev, roster) ==
  /\ events = [e \in EventIds |-> IF e = "e1" THEN ev ELSE AbsentEvent]
  /\ players = roster
  /\ teamPlayers = [t \in TeamIds |-> <<>>]
  /\ timers = [e \in EventIds |->
                 IF e = "e1" THEN [id |-> 1, pl |-> "p1"] ELSE NoTimer]
  /\ timeouts = {[id |-> 1, kind |-> "timer", ev |-> "e1", pl |-> "p1"]}
  /\ procs = [i \in ProcIds |-> IdleProc]
  /\ last = NoOutcome
  /\ debits = [k \in EventIds \X PlayerIds |-> [budget |-> 0, stats |-> 0]]
  /\ ended = [e \in EventIds |-> 0]
  /\ ladder = NoLadder

\* the live event with settings.autoMode = false
ManualEvent == [LiveEvent EXCEPT !.auto = FALSE]

InitManual ==
  /\ uniqueWinning \in BOOLEAN
  /\ StartedWith(ManualEvent, Roster)
  /\ InitFirstBid
  /\ calls = [bids |-> MaxBids, ops |-> MaxOps]

\* every handler that can run with autoMode off: the completion check is
\* reached from the auto branch of the timer callback only
NextManual ==
  \/ \E i \in ProcIds, e \in Existing, p \in PlayerIds, t \in TeamIds,
        a \in BidAmounts : PlaceBid(i, e, p, t, a)
  \/ \E i \in ProcIds : LoadTeam(i)
  \/ \E i \in ProcIds : GetBudget(i)
  \/ \E i \in ProcIds : CreateBudget(i)
  \/ \E i \in ProcIds : ReadTop(i)
  \/ \E i \in ProcIds : Demote(i)
  \/ \E i \in ProcIds : InsertBid(i)
  \/ \E i \in ProcIds : MarkWinning(i)
  \/ \E i \in ProcIds : ResetTimer(i)
  \/ \E i \in ProcIds, t \in timeouts : TimerFire(i, t)
  \/ \E i \in ProcIds : TimerLoadEvent(i)
  \/ \E i \in ProcIds : ReadWinning(i)
  \/ \E i \in ProcIds : TimerCheckPlayer(i)
  \/ \E i \in ProcIds : MarkSold(i)
  \/ \E i \in ProcIds : Purchase(i)
  \/ \E i \in ProcIds : TeamSave(i)
  \/ \E i \in ProcIds : UpdateStats(i)
  \/ \E i \in ProcIds : ClearCurrent(i)
  \/ \E i \in ProcIds : ClearNoBid(i)
  \/ \E i \in ProcIds : AdvanceLoad(i)
  \/ \E i \in ProcIds : AdvanceSelect(i)
  \/ \E i \in ProcIds : AdvanceSaveCategory(i)
  \/ \E i \in ProcIds, t \in timeouts : DelayFire(i, t)
  \/ \E i \in ProcIds, e \in Existing, p \in PlayerIds : StartItem(i, e, p)
  \/ \E i \in ProcIds : StartItemCheck(i)
  \/ \E i \in ProcIds : SaveCurrentPlayer(i)
  \/ \E i \in ProcIds : ArmTimer(i)
  \/ \E i \in ProcIds, e \in Existing, p \in PlayerIds : FinalizeSold(i, e, p)
  \/ \E i \in ProcIds, e \in Existing, p \in PlayerIds : FinalizeUnsold(i, e, p)
  \/ \E i \in ProcIds : UnsoldMark(i)
  \/ \E i \in ProcIds : UnsoldStats(i)
  \/ \E i \in ProcIds : UnsoldClear(i)

SpecManual == InitManual /\ [][NextManual]_vars

\* ----------------------------------------------------------- rotation

Roles == {"batsman", "bowler", "all-rounder"}
BasePrices == {10, 20}

\* the player collections over Roles and BasePrices
Rosters ==
  [PlayerIds -> [role : Roles, basePrice : BasePrices,
                 status : {"available"}, soldPrice : {0}, teamId : {"none"}]]

\* p1 is on auction, with or without a first bid, for every roster
InitRotate ==
  /\ uniqueWinning \in BOOLEAN
  /\ \E roster \in Rosters : StartedWith(LiveEvent, roster)
  /\ InitNoBid \/ InitFirstBid
  /\ calls = [bids |-> 0, ops |-> 0]

\* expiry, sale, completion check and rotation with no call arriving
NextRotate ==
  \/ \E i \in ProcIds, t \in timeouts : TimerFire(i, t)
  \/ \E i \in ProcIds : TimerLoadEvent(i)
  \/ \E i \in ProcIds : ReadWinning(i)
  \/ \E i \in ProcIds : TimerCheckPlayer(i)
  \/ \E i \in ProcIds : LoadTeam(i)
  \/ \E i \in ProcIds : MarkSold(i)
  \/ \E i \in ProcIds : GetBudget(i)
  \/ \E i \in ProcIds : Purchase(i)
  \/ \E i \in ProcIds : TeamSave(i)
  \/ \E i \in ProcIds : UpdateStats(i)
  \/ \E i \in ProcIds : ClearCurrent(i)
  \/ \E i \in ProcIds : CompletionLoad(i)
  \/ \E i \in ProcIds : CompletionCheck(i)
  \/ \E i \in ProcIds : ClearNoBid(i)
  \/ \E i \in ProcIds : AdvanceLoad(i)
  \/ \E i \in ProcIds : AdvanceSelect(i)
  \/ \E i \in ProcIds : AdvanceSaveCategory(i)
  \/ \E i \in ProcIds, t \in timeouts : DelayFire(i, t)
  \/ \E i \in ProcIds : SaveCurrentPlayer(i)
  \/ \E i \in ProcIds : ArmTimer(i)

SpecRotate == InitRotate /\ [][NextRotate]_vars

\* the same with every pending timeout and handler step eventually taken
SpecRotateFair == InitRotate /\ [][NextRotate]_vars /\ WF_vars(NextRotate)

\* ---------------------------------------------------------- event status

Statuses == {"draft", "scheduled", "live", "paused", "completed", "cancelled"}

\* faulty variant of startAuction: the status of the event is not checked
startAuctionAnyStatus(ev, doc, userId) ==
  IF doc.players # {}
    THEN [ev EXCEPT !.status = "live", !.startedBy = userId, !.startedAt = 1]
    ELSE ev

\* event.startAuction(userId) on the loaded document: throws unless the status
\* is draft or scheduled and players are assigned, else saves status,
\* startedBy and startedAt
startAuction(ev, doc, userId) ==
  IF doc.status \in {"draft", "scheduled"} /\ doc.players # {}
    THEN [ev EXCEPT !.status = "live", !.startedBy = userId, !.startedAt = 1]
    ELSE ev

\* startEvent up to the event lookup
StartEvent(i, e) ==
  /\ calls.ops > 0
  /\ FreeSlot(i)
  /\ calls' = [calls EXCEPT !.ops = @ - 1]
  /\ procs' = [procs EXCEPT ![i] =
       [IdleProc EXCEPT !.kind = "startEvent", !.pc = "se_start", !.ev = e,
                        !.doc = events[e]]]
  /\ UNCHANGED <<ladder, ended, uniqueWinning, events, players, bids, budgets,
                 teamPlayers, timers, timeouts, last, debits>>

\* event.startAuction(req.user.userId) and the response
StartAuction(i) ==
  /\ procs[i].pc = "se_start"
  /\ events' = [events EXCEPT ![procs[i].ev] =
                  startAuction(@, procs[i].doc, "admin")]
  /\ procs' = End(i)
  /\ UNCHANGED <<ladder, ended, uniqueWinning, players, bids, budgets, teamPlayers,
                 timers, timeouts, calls, last, debits>>

\* the paths of the event document that updateEvent modifies and saves for
\* updateData = {status}
updateEvent(ev, doc, status) ==
  LET reset == /\ doc.status \in {"live", "paused"}
               /\ status \in {"scheduled", "draft"}
  IN  [ev EXCEPT !.status = IF doc.status # status THEN status ELSE @,
                 !.cur = IF reset /\ doc.cur # NoPlayer THEN NoPlayer ELSE @,
                 !.startTime = IF reset /\ doc.startTime # 0 THEN 0 ELSE @,
                 !.cat = IF reset /\ doc.cat # "batsman" THEN "batsman" ELSE @]

\* updateEvent with a status in the body, up to the event lookup
UpdateEvent(i, e, status) ==
  /\ calls.ops > 0
  /\ FreeSlot(i)
  /\ calls' = [calls EXCEPT !.ops = @ - 1]
  /\ procs' = [procs EXCEPT ![i] =
       [IdleProc EXCEPT !.kind = "updateEvent", !.pc = "ue_save", !.ev = e,
                        !.doc = events[e], !.req = status]]
  /\ UNCHANGED <<ladder, ended, uniqueWinning, events, players, bids, budgets,
                 teamPlayers, timers, timeouts, last, debits>>

\* event.status = updateData.status and event.save()
UpdateEventSave(i) ==
  /\ procs[i].pc = "ue_save"
  /\ events' = [events EXCEPT ![procs[i].ev] =
                  updateEvent(@, procs[i].doc, procs[i].req)]
  /\ procs' = End(i)
  /\ UNCHANGED <<ladder, ended, uniqueWinning, players, bids, budgets, teamPlayers,
                 timers, timeouts, calls, last, debits>>

\* the event documents an admin can have produced with createEvent and
\* updateEvent before any player was put on auction
EventDocs ==
  {[NoDoc EXCEPT !.status = s, !.players = ps, !.startingBudget = 60,
                 !.bidIncrement = 50] :
     s \in Statuses, ps \in {{}, PlayerIds}}

InitLife ==
  /\ uniqueWinning \in BOOLEAN
  /\ events \in [EventIds -> EventDocs]
  /\ players = Roster
  /\ teamPlayers = [t \in TeamIds |-> <<>>]
  /\ timers = [e \in EventIds |-> NoTimer]
  /\ timeouts = {}
  /\ procs = [i \in ProcIds |-> IdleProc]
  /\ last = NoOutcome
  /\ debits = [k \in EventIds \X PlayerIds |-> [budget |-> 0, stats |-> 0]]
  /\ ended = [e \in EventIds |-> 0]
  /\ ladder = NoLadder
  /\ InitNoBid
  /\ calls = [bids |-> 0, ops |-> MaxOps]

\* the commands that set the status of an event
NextLife ==
  \/ \E i \in ProcIds, e \in EventIds : StartEvent(i, e)
  \/ \E i \in ProcIds : StartAuction(i)
  \/ \E i \in ProcIds, e \in EventIds, s \in Statuses : UpdateEvent(i, e, s)
  \/ \E i \in ProcIds : UpdateEventSave(i)

SpecLife == InitLife /\ [][NextLife]_vars

\* ------------------------------------------------------ bid validation

\* amounts of a request body: negative, missing, the base price, valid
\* increments, above the cap
RuleAmounts == {-5, 0, 20, 25, 30, 2005}

\* Team.players of a team that bought MAX_PLAYERS_PER_TEAM players in
\* other events
FullTeam == [n \in 1..MAX_PLAYERS_PER_TEAM |-> "other"]

\* e1 is live with p1 on auction and no bid, e2 is a draft with the same
\* players; t1 has bought no player yet or a full team in other events
InitRules ==
  /\ uniqueWinning \in BOOLEAN
  /\ events = [e \in EventIds |->
                 IF e = "e1" THEN LiveEvent
                 ELSE [NoDoc EXCEPT !.players = PlayerIds]]
  /\ players = Roster
  /\ \E tp \in {<<>>, FullTeam} :
       teamPlayers = [t \in TeamIds |-> IF t = "t1" THEN tp ELSE <<>>]
  /\ timers = [e \in EventIds |->
                 IF e = "e1" THEN [id |-> 1, pl |-> "p1"] ELSE NoTimer]
  /\ timeouts = {[id |-> 1, kind |-> "timer", ev |-> "e1", pl |-> "p1"]}
  /\ procs = [i \in ProcIds |-> IdleProc]
  /\ last = NoOutcome
  /\ debits = [k \in EventIds \X PlayerIds |-> [budget |-> 0, stats |-> 0]]
  /\ ended = [e \in EventIds |-> 0]
  /\ ladder = NoLadder
  /\ InitNoBid
  /\ calls = [bids |-> RaceBids, ops |-> 0]

\* placeBid calls with every kind of amount
NextRules ==
  \/ \E i \in ProcIds, e \in Existing, p \in PlayerIds, t \in TeamIds,
        a \in RuleAmounts : PlaceBid(i, e, p, t, a)
  \/ \E i \in ProcIds : LoadTeam(i)
  \/ \E i \in ProcIds : GetBudget(i)
  \/ \E i \in ProcIds : CreateBudget(i)
  \/ \E i \in ProcIds : ReadTop(i)
  \/ \E i \in ProcIds : Demote(i)
  \/ \E i \in ProcIds : InsertBid(i)
  \/ \E i \in ProcIds : MarkWinning(i)
  \/ \E i \in ProcIds : ResetTimer(i)

SpecRules == InitRules /\ [][NextRules]_vars

\* ------------------------------------------- iterating getNextBidAmount

\* every positive amount below the cap, getNextBidAmount not yet applied
InitLadder ==
  /\ uniqueWinning = TRUE
  /\ events = [e \in EventIds |-> IF e = "e1" THEN LiveEvent ELSE AbsentEvent]
  /\ players = Roster
  /\ teamPlayers = [t \in TeamIds |-> <<>>]
  /\ timers = [e \in EventIds |-> NoTimer]
  /\ timeouts = {}
  /\ procs = [i \in ProcIds |-> IdleProc]
  /\ last = NoOutcome
  /\ debits = [k \in EventIds \X PlayerIds |-> [budget |-> 0, stats |-> 0]]
  /\ ended = [e \in EventIds |-> 0]
  /\ InitNoBid
  /\ calls = [bids |-> 0, ops |-> 0]
  /\ \E x \in 1..(MAX_BID_PER_PLAYER - 1) : ladder = [x |-> x, next |-> 0]

\* getNextBidAmount(x)
ApplyNext ==
  /\ ladder.next = 0
  /\ ladder' = [ladder EXCEPT !.next = getNextBidAmount(ladder.x)]
  /\ UNCHANGED <<uniqueWinning, events, players, bids, budgets, teamPlayers,
                 timers, timeouts, procs, calls, last, debits, ended>>

\* the result becomes the next argument
Climb ==
  /\ ladder.next # 0 /\ ladder.next # NoAmount
  /\ ladder' = [x |-> ladder.next, next |-> 0]
  /\ UNCHANGED <<uniqueWinning, events, players, bids, budgets, teamPlayers,
                 timers, timeouts, procs, calls, last, debits, ended>>

NextLadder == ApplyNext \/ Climb

\* the iteration goes on as long as a step is possible
SpecLadder == InitLadder /\ [][NextLadder]_vars /\ WF_vars(NextLadder)

\* ------------------------------------------- two events sharing players

\* e1 has p1 on auction with a first bid; e2 is live with the same players
\* and no player on auction yet
InitShared ==
  /\ uniqueWinning \in BOOLEAN
  /\ events = [e \in EventIds |->
                 IF e = "e1" THEN LiveEvent
                 ELSE [LiveEvent EXCEPT !.cur = NoPlayer, !.startTime = 0]]
  /\ players = Roster
  /\ teamPlayers = [t \in TeamIds |-> <<>>]
  /\ timers = [e \in EventIds |->
                 IF e = "e1" THEN [id |-> 1, pl |-> "p1"] ELSE NoTimer]
  /\ timeouts = {[id |-> 1, kind |-> "timer", ev |-> "e1", pl |-> "p1"]}
  /\ procs = [i \in ProcIds |-> IdleProc]
  /\ last = NoOutcome
  /\ debits = [k \in EventIds \X PlayerIds |-> [budget |-> 0, stats |-> 0]]
  /\ ended = [e \in EventIds |-> 0]
  /\ ladder = NoLadder
  /\ InitFirstBid
  /\ calls = [bids |-> 0, ops |-> MaxOps]

\* startPlayerAuction, expiry and rotation in both events
NextShared ==
  \/ \E i \in ProcIds, e \in Existing, p \in PlayerIds : StartItem(i, e, p)
  \/ \E i \in ProcIds : StartItemCheck(i)
  \/ NextRotate

SpecShared == InitShared /\ [][NextShared]_vars

\* the same with finalizePlayerUnsold
NextIsolation ==
  \/ \E i \in ProcIds, e \in Existing, p \in PlayerIds : FinalizeUnsold(i, e, p)
  \/ \E i \in ProcIds : UnsoldMark(i)
  \/ \E i \in ProcIds : UnsoldStats(i)
  \/ \E i \in ProcIds : UnsoldClear(i)
  \/ NextShared

SpecIsolation == InitShared /\ [][NextIsolation]_vars

\* ------------------------------------- sales by timer and by operator

\* p1 is on auction with a first bid; no further bid arrives
InitSale ==
  /\ uniqueWinning \in BOOLEAN
  /\ InitStarted
  /\ InitFirstBid
  /\ calls = [bids |-> 0, ops |-> MaxOps]

\* expiry, finalizePlayerSold, sale, completion check and rotation
NextSale ==
  \/ \E i \in ProcIds, e \in Existing, p \in PlayerIds : FinalizeSold(i, e, p)
  \/ NextRotate

SpecSale == InitSale /\ [][NextSale]_vars

\* ------------------------------------- status change during an auction

\* expiry, sale and rotation while the admin changes the status of the event
NextFreeze ==
  \/ \E i \in ProcIds, e \in Existing, s \in Statuses : UpdateEvent(i, e, s)
  \/ \E i \in ProcIds : UpdateEventSave(i)
  \/ NextRotate

SpecFreeze == InitSale /\ [][NextFreeze]_vars

\* ------------------------------------------------------ emitAuctionEnded

\* finalStats and teamSummaries of the auction:ended payload: soldPlayers are
\* the players of the event whose Player.status is 'sold', grouped by their
\* Player.teamId
emitAuctionEnded(evs, ps, e) ==
  LET soldPlayers == {p \in evs[e].players : ps[p].status = "sold"}
      totalPlayers == Cardinality(evs[e].players)
      playersSold == Cardinality(soldPlayers)
  IN  [totalPlayers |-> totalPlayers,
       playersSold |-> playersSold,
       playersUnsold |-> totalPlayers - playersSold,
       totalAmountSpent |-> evs[e].spent,
       teamSummaries |->
         [t \in TeamIds |-> {p \in soldPlayers : ps[p].teamId = t}]]

\* ---------------------------------------------------------- properties

\* indexes of the stored bids of (e, p)
ItemBids(e, p) == {i \in 1..Len(bids) : bids[i].ev = e /\ bids[i].pl = p}

\* no handler invocation is in flight
Quiescent == \A i \in ProcIds : Idle(i)

\* C1: at every moment at most one Bid of an (event, item) pair is marked
\* winning
C1_AtMostOneWinning ==
  \A e \in EventIds, p \in PlayerIds : Cardinality(WinningIdx(bids, e, p)) <= 1

\* C2: once all concurrent placeBid calls on an item have finished, exactly one
\* Bid of the item is winning and no accepted Bid of the item has a higher amount
C2_OneHighestWinner ==
  \A e \in EventIds, p \in PlayerIds :
    (Quiescent /\ ItemBids(e, p) # {}) =>
      \E w \in ItemBids(e, p) :
        /\ WinningIdx(bids, e, p) = {w}
        /\ \A j \in ItemBids(e, p) : bids[j].amt <= bids[w].amt

\* C3: every Bid that became winning is at least the next valid amount above
\* the amount that was winning just before (the base price when none was), and
\* the amounts that became winning on an item never decrease
C3_Linearizable ==
  \A e \in EventIds, p \in PlayerIds : \A j \in ItemBids(e, p) :
    /\ bids[j].amt >= getNextBidAmount(IF bids[j].over = 0
                                         THEN players[p].basePrice
                                         ELSE bids[j].over)
    /\ \A i \in ItemBids(e, p) : i < j => bids[i].amt <= bids[j].amt

\* C4: a placeBid call that observed the same top bid as a call accepted before
\* it ends with the duplicate-key conflict, never with an acceptance
C4_RacerConflicts ==
  last.rival => last.res = "duplicate"

\* C5: a placeBid call that ends with any failure has changed no stored Bid
C5_FailureChangesNothing ==
  last.res \notin {"none", "ok"} => ~last.wrote

\* C6: every stored budget row has remaining = budget - spent and
\* 0 <= spent <= budget
C6_BudgetConsistent ==
  \A k \in TeamIds \X EventIds :
    budgets[k].exists =>
      /\ budgets[k].remaining = budgets[k].budget - budgets[k].spent
      /\ 0 <= budgets[k].spent
      /\ budgets[k].spent <= budgets[k].budget

\* a sale has debited some budget row
C6_Debited ==
  \E k \in TeamIds \X EventIds : budgets[k].exists /\ budgets[k].spent > 0

\* C7: for every (event, item) the budget debit and the statistics update of
\* a sale are performed at most once
C7_FinalizedOnce ==
  \A k \in EventIds \X PlayerIds : debits[k].budget <= 1 /\ debits[k].stats <= 1

\* a step taken by a placeBid invocation
BidStep ==
  \/ calls'.bids # calls.bids
  \/ \E i \in ProcIds : procs[i].kind = "placeBid" /\ procs'[i].pc # procs[i].pc

\* C8: no step of placeBid changes spent or remaining of a stored budget row;
\* a row that placeBid creates has nothing spent
C8_BidKeepsBudget ==
  [][BidStep =>
       \A k \in TeamIds \X EventIds :
         IF budgets[k].exists
           THEN /\ budgets'[k].spent = budgets[k].spent
                /\ budgets'[k].remaining = budgets[k].remaining
           ELSE budgets'[k].spent = 0]_vars

\* a bid is about to be accepted while some budget row has been debited
C8_BidAfterDebit ==
  /\ C6_Debited
  /\ \E i \in ProcIds : procs[i].kind = "placeBid" /\ procs[i].pc = "reset"

\* a sale of item p of event e is in flight
SaleInFlight(e, p) ==
  \E i \in ProcIds :
    /\ procs[i].kind \in {"timer", "finalizeSold"}
    /\ procs[i].ev = e /\ procs[i].pl = p

\* C9: a bid passes validation only within the bidder's remaining budget; the
\* winning bid on an event's current item never exceeds the remaining budget of
\* its team (outside the sale that debits it); the debit of a sale never lacks
\* funds
C9_WinningCovered ==
  /\ \A i \in ProcIds :
       (procs[i].kind = "placeBid"
        /\ procs[i].pc \in {"demote", "insert", "markWinning", "reset"})
         => procs[i].amt <= procs[i].bud.remaining
  /\ \A e \in EventIds :
       (events[e].cur # NoPlayer /\ ~SaleInFlight(e, events[e].cur)) =>
         \A w \in WinningIdx(bids, e, events[e].cur) :
           bids[w].amt <= budgets[<<bids[w].team, e>>].remaining
  /\ \A i \in ProcIds :
       procs[i].pc = "purchase" => canAfford(procs[i].bud, procs[i].amt)

\* pending expiry timeouts of event e
ArmedTimers(e) == {t \in timeouts : t.kind = "timer" /\ t.ev = e}

\* C10: an event has at most one pending expiry timeout, and it is the one the
\* timers map holds, so a replaced timeout never fires
C10_OneTimer ==
  \A e \in EventIds :
    /\ Cardinality(ArmedTimers(e)) <= 1
    /\ \A t \in ArmedTimers(e) : timers[e].id = t.id /\ timers[e].pl = t.pl

\* an accepted bid has re-armed the timer of its event
C10_Rearmed ==
  /\ last.res = "ok"
  /\ \E e \in EventIds : ArmedTimers(e) # {}

\* C11: an expiry callback starts only by firing the pending timeout that the
\* timers map holds for the event, and that firing consumes it: a timeout that
\* was cancelled or replaced starts no callback, and no arm starts two
C11_FiresOncePerArm ==
  [][\A i \in ProcIds :
       (procs[i].kind # "timer" /\ procs'[i].kind = "timer") =>
         \E t \in timeouts :
           /\ t.kind = "timer"
           /\ t.ev = procs'[i].ev /\ t.pl = procs'[i].pl
           /\ timers[t.ev] = [id |-> t.id, pl |-> t.pl]
           /\ t \notin timeouts'
           /\ timers'[t.ev] = NoTimer]_vars

\* an expiry callback runs, fired by a timer that an accepted bid had re-armed
C11_FiredAfterRearm ==
  /\ last.res = "ok"
  /\ \E i \in ProcIds :
       procs[i].kind = "timer" /\ procs[i].pc = "tc_event" /\ ~procs[i].stale

\* pcs of an expiry callback that has debited the sale or cleared the item
Finalizing ==
  {"teamSave", "stats", "clear", "check", "allSold", "am_event", "am_sold",
   "am_saveCat"}

\* C12: when placeBid accepts a bid, the event's only armed timer afterwards
\* is one for the event's current item, and an expiry callback of a timer armed
\* before the acceptance never finalizes the item
C12_FullWindowRestored ==
  [][/\ \A i \in ProcIds :
          (procs[i].kind = "placeBid" /\ procs[i].pc = "reset"
           /\ procs'[i].kind = "idle") =>
            \E t \in timeouts' :
              /\ ArmedTimers(procs[i].ev)' = {t}
              /\ t.pl = events'[procs[i].ev].cur
     /\ \A j \in ProcIds :
          procs'[j].stale => procs'[j].pc \notin Finalizing]_vars

\* C13: an expiry callback that found a winning bid of amount a in auto mode
\* goes through with the sale; its debit raises the stored spent of the winner's
\* budget row by a, its stats update raises playersSold by 1 and
\* totalAmountSpent by a, each for the first time for the item; it then clears
\* the current item and either completes the event or advances
C13_ExpirySale ==
  [][\A i \in ProcIds :
       LET pr == procs[i]
           k == <<pr.team, pr.ev>>
           it == <<pr.ev, pr.pl>>
           moved == procs'[i].pc # pr.pc
       IN  pr.kind = "timer" =>
             /\ (pr.pc = "tc_player" /\ pr.wb # 0 /\ pr.doc.auto /\ moved)
                  => procs'[i].pc = "team"
             /\ (pr.pc = "purchase" /\ moved)
                  => /\ procs'[i].pc = "teamSave"
                     /\ budgets'[k].spent = budgets[k].spent + pr.amt
                     /\ debits'[it].budget = 1
             /\ (pr.pc = "stats" /\ moved)
                  => /\ events'[pr.ev].sold = events[pr.ev].sold + 1
                     /\ events'[pr.ev].spent = events[pr.ev].spent + pr.amt
                     /\ debits'[it].stats = 1
             /\ (pr.pc = "clear" /\ moved)
                  => /\ events'[pr.ev].cur = NoPlayer
                     /\ procs'[i].pc = "check"
             /\ (pr.pc = "allSold" /\ moved)
                  => \/ events'[pr.ev].status = "completed"
                     \/ procs'[i].pc = "am_event"]_vars

C15_ManualExpirySale ==
  [][\A i \in ProcIds :
       LET pr == procs[i]
       IN  (pr.kind = "timer" /\ pr.pc = "tc_player" /\ pr.wb # 0
            /\ ~pr.doc.auto /\ players[pr.pl].status = "available"
            /\ procs'[i].pc # pr.pc) => procs'[i].pc = "team"]_vars

\* C16: the step that ends a sale, the clear of finalizePlayerSold or the
\* allSold test of the expiry callback, moves a live or paused event whose
\* players all have a winning Bid to completed and sets completedAt
C16_SaleCompletes ==
  [][\A i \in ProcIds :
       LET pr == procs[i]
           everySold == /\ events[pr.ev].players # {}
                        /\ events[pr.ev].players \subseteq SoldPlayerIds(bids, pr.ev)
       IN  (/\ \/ pr.kind = "finalizeSold" /\ pr.pc = "clear"
               \/ pr.kind = "timer" /\ pr.pc = "allSold"
            /\ procs'[i].pc # pr.pc
            /\ events[pr.ev].status \in {"live", "paused"}
            /\ everySold) =>
             /\ events'[pr.ev].status = "completed"
             /\ events'[pr.ev].completedAt = 1]_vars

\* C17: the auctionEnded summary of an event is published at most once, and
\* only for an event whose status is completed
C17_PublishedOnce ==
  \A e \in EventIds :
    /\ ended[e] <= 1
    /\ ended[e] > 0 => events[e].status = "completed"

C19_AdvanceExhaustive ==
  [][\A i \in ProcIds :
       LET pr == procs[i]
       IN  (pr.pc \in {"am_sold", "am_saveCat"} /\ procs'[i].kind = "idle"
            /\ timeouts' = timeouts) =>
             \A q \in events[pr.ev].players :
               players[q].role \in Roles => q \in SoldPlayerIds(bids, pr.ev)]_vars

\* C20: the last step of finalizePlayerUnsold leaves the player with global
\* status unsold and the event without a current player, and then enters
\* autoMoveToNextPlayer when a player of the event has no winning Bid
C20_UnsoldAdvances ==
  [][\A i \in ProcIds :
       LET pr == procs[i]
       IN  (pr.kind = "finalizeUnsold" /\ pr.pc = "fu_clear"
            /\ procs'[i].pc # pr.pc) =>
             /\ players'[pr.pl].status = "unsold"
             /\ events'[pr.ev].cur = NoPlayer
             /\ (events[pr.ev].players \ SoldPlayerIds(bids, pr.ev) # {}) =>
                  procs'[i].pc = "am_event"]_vars


\* C21: startPlayerAuction goes on to set the current player and arm the timer
\* only for a live event, a player that belongs to it, is globally available
\* and has no winning Bid in the event
C21_StartItemGuard ==
  [][\A i \in ProcIds :
       LET pr == procs[i]
       IN  (pr.kind = "startItem" /\ pr.pc = "sp_player"
            /\ procs'[i].pc = "saveCurrent") =>
             /\ pr.doc.status = "live"
             /\ pr.pl \in pr.doc.players
             /\ players[pr.pl].status = "available"
             /\ getWinningBid(bids, pr.ev, pr.pl) = 0]_vars


\* C22: startEvent sets the status to live and records the starter and the
\* start time when the event it loaded is draft or scheduled and has players;
\* otherwise it leaves the event as it is
C22_StartGuard ==
  [][\A i \in ProcIds :
       LET pr == procs[i]
           startable == /\ pr.doc.status \in {"draft", "scheduled"}
                        /\ pr.doc.players # {}
       IN  (pr.kind = "startEvent" /\ pr.pc = "se_start"
            /\ procs'[i].pc # pr.pc) =>
             /\ startable => /\ events'[pr.ev].status = "live"
                             /\ events'[pr.ev].startedBy = "admin"
                             /\ events'[pr.ev].startedAt = 1
             /\ ~startable => events' = events]_vars

\* an event has been started by startEvent
C22_Started ==
  \E e \in EventIds :
    /\ events[e].status = "live"
    /\ events[e].startedBy = "admin" /\ events[e].startedAt = 1
    /\ events[e].cur = NoPlayer /\ events[e].players # {}
    /\ calls.ops < MaxOps

AllowedTransitions ==
  {<<"draft", "scheduled">>, <<"draft", "live">>, <<"scheduled", "live">>,
   <<"live", "paused">>, <<"paused", "live">>,
   <<"live", "completed">>, <<"paused", "completed">>}
  \cup {<<s, "cancelled">> : s \in {"draft", "scheduled", "live", "paused"}}

\* C23: the status of an event changes only along draft -> scheduled -> live
\* <-> paused -> completed or to cancelled from a state before completed
C23_StatusTransitions ==
  [][\A e \in EventIds :
       events'[e].status # events[e].status =>
         <<events[e].status, events'[e].status>> \in AllowedTransitions]_vars


\* the amount a bid on (e, p) is validated against: the winning amount, or
\* the base price of the player when no bid is winning
CurrentBidAmount(e, p) ==
  IF TopAmount(bids, e, p) # 0 THEN TopAmount(bids, e, p)
  ELSE players[p].basePrice

\* C24: placeBid lets a bid pass its validation only if the amount is at
\* least getNextBidAmount of the current winning amount, or of the base price
\* when no bid exists; on base price 20 a first bid must be at least 25
C24_MinimumBid ==
  [][\A i \in ProcIds :
       LET pr == procs[i]
           t == CurrentBidAmount(pr.ev, pr.pl)
       IN  (pr.kind = "placeBid" /\ pr.pc = "top"
            /\ procs'[i].pc \in {"demote", "insert"}) =>
             /\ getNextBidAmount(t) # NoAmount
             /\ pr.amt >= getNextBidAmount(t)
             /\ t = 20 => pr.amt >= 25]_vars

\* a first bid on p1 (base price 20) was rejected as below the minimum
C24_FirstBidRejected ==
  /\ last.res = "belowmin"
  /\ bids = <<>>
  /\ players["p1"].basePrice = 20


\* C25: the bid:received event of an accepted bid of amount a carries
\* getNextBidAmount(a) as nextBidAmount (30 after a bid of 25), which is the
\* minimum the next placeBid is validated against
C25_PublishedNextAmount ==
  last.res = "ok" =>
    /\ last.emit.nextBidAmount = getNextBidAmount(last.emit.amount)
    /\ last.emit.amount = 25 => last.emit.nextBidAmount = 30


\* C26: for a positive amount x below the cap, getNextBidAmount(x) is greater
\* than x and at most the cap; it is null exactly for an argument at the cap;
\* the iteration from any such x arrives at the cap and yields null
C26_LadderReachesCap ==
  /\ [](ladder.next # 0 =>
          /\ ladder.next = NoAmount <=> ladder.x >= MAX_BID_PER_PLAYER
          /\ ladder.next # NoAmount =>
               ladder.next > ladder.x /\ ladder.next <= MAX_BID_PER_PLAYER)
  /\ <>(ladder.x = MAX_BID_PER_PLAYER /\ ladder.next = NoAmount)

\* the iteration has arrived at the cap and getNextBidAmount returned null
C26_AtCap ==
  ladder.x = MAX_BID_PER_PLAYER /\ ladder.next = NoAmount


\* C27: a Bid that is superseded by a later accepted Bid on the same event and
\* item stays stored with isWinningBid = false and status outbid, and no Bid
\* is ever removed
C27_SupersededOutbid ==
  [][/\ Len(bids') >= Len(bids)
     /\ \A i \in 1..Len(bids) : /\ bids'[i].ev = bids[i].ev
                                /\ bids'[i].pl = bids[i].pl
                                /\ bids'[i].amt = bids[i].amt
     /\ \A i, j \in 1..Len(bids') :
          (/\ i < j
           /\ bids'[i].ev = bids'[j].ev /\ bids'[i].pl = bids'[j].pl
           /\ ~bids'[i].win) => bids'[i].status = "outbid"]_vars


\* C28: placeBid creates or changes an EventBudget row only for a bid that
\* its validation accepts: a bid that is not positive, above the cap or below
\* the minimum increment leaves the budget rows as they are
C28_ValidationBeforeChange ==
  [][\A i \in ProcIds :
       LET pr == procs[i]
           k == <<pr.team, pr.ev>>
       IN  (pr.kind = "placeBid" /\ budgets'[k] # budgets[k]
            /\ pr.pc = "budgetCreate") =>
             canPlaceBid(pr.amt, CurrentBidAmount(pr.ev, pr.pl),
                         budgets'[k].remaining, Len(pr.tp))
               \notin {"invalid", "maxcap", "maxreached", "belowmin"}]_vars


\* players of event e won by team t: its winning Bids in the event
WonInEvent(t, e) ==
  {bids[n].pl : n \in {m \in 1..Len(bids) :
                         bids[m].ev = e /\ bids[m].team = t /\ bids[m].win}}

\* C29: placeBid rejects a bid for the player limit only when the bidding
\* team has won MAX_PLAYERS_PER_TEAM players in that event; players bought in
\* other events do not count
C29_CapacityPerEvent ==
  [][\A i \in ProcIds :
       LET pr == procs[i]
       IN  (pr.kind = "placeBid" /\ pr.pc = "top" /\ procs'[i].kind = "idle"
            /\ last'.res = "capacity") =>
             Cardinality(WonInEvent(pr.team, pr.ev)) >= MAX_PLAYERS_PER_TEAM]_vars


\* C30: no player is the current player of two events at the same time
C30_ItemExclusive ==
  \A e, f \in EventIds :
    (e # f /\ events[e].cur # NoPlayer) => events[e].cur # events[f].cur


\* players of event e whose winning Bid belongs to team t
WonBy(bs, t, e) ==
  {bs[i].pl : i \in {j \in 1..Len(bs) :
                       bs[j].ev = e /\ bs[j].win /\ bs[j].team = t}}

\* C31: in the auctionEnded summary published for a completed event, the sold
\* count is the number of players of the event that have a winning Bid, the
\* unsold count is the total minus the sold count, and the breakdown lists
\* for each team exactly the players whose winning Bid belongs to it
C31_SummaryCounts ==
  [][\A e \in EventIds :
       ended'[e] # ended[e] =>
         LET s == emitAuctionEnded(events', players', e)
         IN  /\ s.playersSold =
                  Cardinality(SoldPlayerIds(bids', e) \cap events'[e].players)
             /\ s.playersUnsold = s.totalPlayers - s.playersSold
             /\ \A t \in TeamIds :
                  s.teamSummaries[t] = WonBy(bids', t, e) \cap events'[e].players]_vars


\* C32: a live event never rests with a current player, no armed timer and no
\* handler in progress: timer expiry alone always takes the current player off
\* auction, in manual mode too
C32_ForwardProgress ==
  \A e \in EventIds :
    (Quiescent /\ events[e].status = "live" /\ events[e].cur # NoPlayer) =>
      ArmedTimers(e) # {}


\* C33: whenever no handler is in progress and no timeout is pending, a player
\* that has a winning Bid in an event and is not the event's current player
\* has had its sale finalized: the winner's budget debited and the event
\* statistics updated
C33_NoLostSale ==
  \A e \in EventIds, p \in PlayerIds :
    (Quiescent /\ timeouts = {} /\ p \in SoldPlayerIds(bids, e)
     /\ events[e].cur # p) =>
      (debits[<<e, p>>].budget >= 1 /\ debits[<<e, p>>].stats >= 1)


\* the winning bids stored for player p in event e, as (team, amount) pairs
WinningOf(bs, e, p) ==
  {<<bs[i].team, bs[i].amt>> :
     i \in {j \in 1..Len(bs) : bs[j].ev = e /\ bs[j].pl = p /\ bs[j].win}}

\* C34: once the sale of a player in an event has been finalized (winner
\* debited, statistics updated), no step changes the player's winning Bid in
\* that event: it is not demoted and no other winning Bid is stored
C34_SoldBidFinal ==
  [][\A e \in EventIds, p \in PlayerIds :
       (debits[<<e, p>>].budget >= 1 /\ debits[<<e, p>>].stats >= 1) =>
         WinningOf(bids', e, p) = WinningOf(bids, e, p)]_vars


\* sum of the amounts of a set of (team, amount) pairs
RECURSIVE SumAmounts(_)
SumAmounts(S) ==
  IF S = {} THEN 0
  ELSE LET x == CHOOSE y \in S : TRUE IN x[2] + SumAmounts(S \ {x})

\* the (player, amount) pairs of the sales finalized for team t in event e
FinalizedSales(t, e) ==
  {<<bids[i].pl, bids[i].amt>> :
     i \in {j \in 1..Len(bids) :
              /\ bids[j].ev = e /\ bids[j].team = t /\ bids[j].win
              /\ debits[<<e, bids[j].pl>>].stats >= 1}}

\* sum of spent over the budget rows of event e
SpentInEvent(e) ==
  SumAmounts({<<t, budgets[<<t, e>>].spent>> : t \in TeamIds})

\* C35: whenever no handler is in progress, the spent of every budget row is
\* the sum of the amounts of the sales finalized for that team in that event,
\* and the event's totalAmountSpent is the sum of spent over its budget rows
C35_Conservation ==
  Quiescent =>
    \A e \in EventIds :
      /\ \A t \in TeamIds :
           budgets[<<t, e>>].spent = SumAmounts(FinalizedSales(t, e))
      /\ events[e].spent = SpentInEvent(e)


\* C36: in a live auto-mode event every player of the event that has no
\* winning Bid is eventually the current player, even when the players offered
\* before it expire without a bid
C36_NoStarvation ==
  \A p \in PlayerIds :
    (/\ events["e1"].status = "live"
     /\ p \in events["e1"].players
     /\ p \notin SoldPlayerIds(bids, "e1")) ~> (events["e1"].cur = p)


\* the step is the save of an updateEvent call
UpdateStep ==
  \E i \in ProcIds : procs[i].kind = "updateEvent" /\ procs'[i].kind = "idle"

\* C37: while the status of an event is not live, no step other than
\* updateEvent changes its current player, stores or changes a Bid of the
\* event, or debits a budget or updates the statistics for a sale in it
C37_FrozenWhenNotLive ==
  [][\A e \in EventIds :
       (events[e].status # "live" /\ ~UpdateStep) =>
         /\ events'[e].cur = events[e].cur
         /\ \A p \in PlayerIds :
              /\ debits'[<<e, p>>] = debits[<<e, p>>]
              /\ WinningOf(bids', e, p) = WinningOf(bids, e, p)
              /\ ItemBids(e, p)' = ItemBids(e, p)]_vars


\* C38: no player is both recorded unsold (status unsold, counted in an
\* event's playersUnsold) and holding a winning Bid in that event, and
\* playersSold + playersUnsold never exceeds the number of players of the event
C38_UnsoldWithoutBid ==
  \A e \in Existing :
    /\ \A p \in events[e].players :
         ~(/\ players[p].status = "unsold"
           /\ events[e].unsold >= 1
           /\ p \in SoldPlayerIds(bids, e))
    /\ events[e].sold + events[e].unsold <= Cardinality(events[e].players)


\* the step is taken by a handler working on event e
ActsOn(e) ==
  \E i \in ProcIds :
    /\ procs'[i].pc # procs[i].pc
    /\ (IF Idle(i) THEN procs'[i].ev ELSE procs[i].ev) = e

\* startPlayerAuction of player p in event e would be accepted
StartAccepted(e, p) ==
  /\ events[e].status = "live"
  /\ p \in events[e].players
  /\ players[p].status = "available"

\* C39: a step of a handler working on one event leaves unchanged the
\* document (status, statistics, current player), the armed timer, the budget
\* rows and the bids of every other event, and does not change whether
\* startPlayerAuction of a player is accepted in another event
C39_EventIsolation ==
  [][\A e, f \in EventIds :
       (e # f /\ ActsOn(e)) =>
         /\ events'[f] = events[f]
         /\ timers'[f] = timers[f]
         /\ \A t \in TeamIds : budgets'[<<t, f>>] = budgets[<<t, f>>]
         /\ \A p \in PlayerIds :
              /\ WinningOf(bids', f, p) = WinningOf(bids, f, p)
              /\ ItemBids(f, p)' = ItemBids(f, p)
              /\ StartAccepted(f, p)' = StartAccepted(f, p)]_vars

====
